---- MODULE Spec2Model ----
(***************************************************************************)
(* PotokenExtractor (src/potoken_generator/extractor.py): the update       *)
(* controller (run, run_once, request_update, _update, _perform_update),   *)
(* the extraction session, the network observer (_send_handler) and the    *)
(* token extractor (_extract_token).                                       *)
(*                                                                         *)
(* Coroutines run on one asyncio event loop: a coroutine step is atomic    *)
(* from one await to the next.  request_update() is a plain function that  *)
(* may be called from another thread, so each of its reads and its         *)
(* call_soon_threadsafe post is a step of its own.  asyncio.wait_for may   *)
(* run the awaited coroutine as a task of its own, so the call of _update, *)
(* the first step of _perform_update, and the statement after _update      *)
(* returns are separate steps; callbacks posted to the loop and other      *)
(* threads may act in between.                                             *)
(*                                                                         *)
(* Spec follows the controller and its sessions.  SpecObserver starts in   *)
(* a state of Spec, an attempt suspended in its 15 s completion wait, and  *)
(* follows the network events of that session's tab one at a time, over a  *)
(* wider set of request bodies.                                            *)
(***************************************************************************)
EXTENDS Naturals, Integers, Sequences, FiniteSets, TLC

\* ------------------------------------------------------------------ bounds
\* Browser launches the model follows (one per refresh attempt).
MaxAttempts == 2
\* Calls of run_once() the model follows.
MaxOnceCalls == 1
\* Calls of request_update() each requesting thread makes.
MaxRequestCalls == 1
\* Stimuli from outside the controller that one behaviour holds: run_once()
\* calls, request_update() calls and browser launches, taken together.
MaxStimuli == 2

\* --------------------------------------------------------- JSON documents
\* A parsed JSON value.  Python's None and JSON null are the same value; a
\* number or boolean is held by its text.
JStr(x) == [t |-> "str", s |-> x, items |-> <<>>]
JNum(x) == [t |-> "num", s |-> x, items |-> <<>>]
JBool(x) == [t |-> "bool", s |-> x, items |-> <<>>]
JNull == [t |-> "null", s |-> "", items |-> <<>>]
\* dict: the (key, value) items in insertion order; list: the elements in
\* order, each held as an item with the empty key.
KV(key, val) == [k |-> key, v |-> val]
JDict(kvs) == [t |-> "dict", s |-> "", items |-> kvs]
JList(vs) == [t |-> "list", s |-> "", items |-> [i \in 1..Len(vs) |-> KV("", vs[i])]]

IsDict(x) == x.t = "dict"
IsList(x) == x.t = "list"
IsStr(x) == x.t = "str"

HasKey(d, key) == \E i \in 1..Len(d.items) : d.items[i].k = key
DictGet(d, key) == d.items[CHOOSE i \in 1..Len(d.items) : d.items[i].k = key].v

\* str.lower() on the key names that occur in the request bodies.
Lower(key) ==
    CASE key = "poToken" -> "potoken"
      [] key = "PoToken" -> "potoken"
      [] key = "POTOKEN" -> "potoken"
      [] key = "visitorData" -> "visitordata"
      [] key = "serviceIntegrityDimensions" -> "serviceintegritydimensions"
      [] OTHER -> key

\* try_get_path: follow path_keys through nested dicts, None when a step is
\* not a dict or lacks the key.
RECURSIVE try_get_path(_, _)
try_get_path(d, path_keys) ==
    IF path_keys = <<>> THEN d
    ELSE IF ~IsDict(d) \/ ~HasKey(d, Head(path_keys)) THEN JNull
    ELSE try_get_path(DictGet(d, Head(path_keys)), Tail(path_keys))

\* The two key predicates _extract_token passes to find_key.
KeyPredicate(which, key, val) ==
    IF which = "potoken" THEN Lower(key) = "potoken"
    ELSE key = "visitorData" /\ IsStr(val)

NotFound == [found |-> FALSE, path |-> <<>>, val |-> JNull]
Found(p, val) == [found |-> TRUE, path |-> p, val |-> val]

\* find_key: pre-order search; in a dict the key is tested before its value
\* is searched; the first match is returned whatever its value is.
RECURSIVE find_key(_, _, _)
RECURSIVE find_key_from(_, _, _, _)
find_key(obj, which, path) ==
    IF IsDict(obj) \/ IsList(obj) THEN find_key_from(obj, which, path, 1)
    ELSE NotFound

find_key_from(obj, which, path, i) ==
    IF i > Len(obj.items) THEN NotFound
    ELSE IF IsDict(obj)
    THEN LET key == obj.items[i].k
             val == obj.items[i].v
             p == Append(path, key)
         IN IF KeyPredicate(which, key, val) THEN Found(p, val)
            ELSE LET found == find_key(val, which, p)
                 IN IF found.found THEN found
                    ELSE find_key_from(obj, which, path, i + 1)
    ELSE LET found == find_key(obj.items[i].v, which, Append(path, "[]"))
         IN IF found.found THEN found
            ELSE find_key_from(obj, which, path, i + 1)

\* ------------------------------------------------------------ json.loads
\* The request bodies the browser is taken to send, as raw post_data text.
EmptyBody == ""
MalformedBody == "not json"
CanonBody1 == "{context:{client:{visitorData:V1}},serviceIntegrityDimensions:{poToken:T1}}"
CanonBody2 == "{context:{client:{visitorData:V2}},serviceIntegrityDimensions:{poToken:T2}}"
NoFieldsBody == "{}"
NestedBody == "{data:{PoToken:T3},context:{client:{visitorData:V3}}}"
Bodies == {EmptyBody, MalformedBody, CanonBody1, NoFieldsBody, NestedBody}
\* Bodies without a string at serviceIntegrityDimensions.poToken.
LaterMatchBody == "{context:{client:{visitorData:V1}},a:{poToken:7},b:{potoken:T4}}"
InnerMatchBody == "{context:{client:{visitorData:V1}},poToken:{POTOKEN:T5}}"
ListMatchBody == "{context:{client:{visitorData:V1}},items:[{x:1},{poToken:T6}]}"
DeepMatchBody == "{context:{client:{visitorData:V1}},a:{b:{potoken:T7}},PoToken:T8}"
NullCanonBody ==
    "{context:{client:{visitorData:V1}},serviceIntegrityDimensions:{poToken:null},z:{poToken:T9}}"
ListRootBody == "[{poToken:T1}]"
\* Bodies with a value that is no string at a canonical path.
NumTokenBody == "{context:{client:{visitorData:V1}},serviceIntegrityDimensions:{poToken:7}}"
DictTokenBody == "{context:{client:{visitorData:V1}},serviceIntegrityDimensions:{poToken:{x:1}}}"
ListTokenBody == "{context:{client:{visitorData:V1}},serviceIntegrityDimensions:{poToken:[T1]}}"
BoolTokenBody == "{context:{client:{visitorData:V1}},serviceIntegrityDimensions:{poToken:true}}"
NumVisitorBody == "{context:{client:{visitorData:9}},serviceIntegrityDimensions:{poToken:T1}}"
NullVisitorBody ==
    "{context:{client:{visitorData:null}},visitorData:5,y:{visitorData:V4},serviceIntegrityDimensions:{poToken:T1}}"
ObservedBodies ==
    Bodies \cup {CanonBody2, LaterMatchBody, InnerMatchBody, ListMatchBody, DeepMatchBody,
                 NullCanonBody, ListRootBody, NumTokenBody, DictTokenBody, ListTokenBody,
                 BoolTokenBody, NumVisitorBody, NullVisitorBody}

\* The dict {context:{client:{visitorData:vis}}, ...rest}.
WithVisitor(vis, rest) ==
    JDict(<< KV("context", JDict(<< KV("client", JDict(<< KV("visitorData", vis) >>)) >>)) >>
          \o rest)
\* The item serviceIntegrityDimensions:{poToken:tok}.
ServiceDims(tok) == KV("serviceIntegrityDimensions", JDict(<< KV("poToken", tok) >>))

CanonJson(vis, tok) ==
    JDict(<< KV("context", JDict(<< KV("client", JDict(<< KV("visitorData", JStr(vis)) >>)) >>)),
             KV("serviceIntegrityDimensions", JDict(<< KV("poToken", JStr(tok)) >>)) >>)

\* json.loads: [ok |-> FALSE] stands for JSONDecodeError.
json_loads(text) ==
    CASE text = CanonBody1 -> [ok |-> TRUE, val |-> CanonJson("V1", "T1")]
      [] text = CanonBody2 -> [ok |-> TRUE, val |-> CanonJson("V2", "T2")]
      [] text = NoFieldsBody -> [ok |-> TRUE, val |-> JDict(<<>>)]
      [] text = NestedBody ->
           [ok |-> TRUE,
            val |-> JDict(<< KV("data", JDict(<< KV("PoToken", JStr("T3")) >>)),
                             KV("context", JDict(<< KV("client",
                                 JDict(<< KV("visitorData", JStr("V3")) >>)) >>)) >>)]
      [] text = LaterMatchBody ->
           [ok |-> TRUE,
            val |-> WithVisitor(JStr("V1"),
                        << KV("a", JDict(<< KV("poToken", JNum("7")) >>)),
                           KV("b", JDict(<< KV("potoken", JStr("T4")) >>)) >>)]
      [] text = InnerMatchBody ->
           [ok |-> TRUE,
            val |-> WithVisitor(JStr("V1"),
                        << KV("poToken", JDict(<< KV("POTOKEN", JStr("T5")) >>)) >>)]
      [] text = ListMatchBody ->
           [ok |-> TRUE,
            val |-> WithVisitor(JStr("V1"),
                        << KV("items", JList(<< JDict(<< KV("x", JNum("1")) >>),
                                                JDict(<< KV("poToken", JStr("T6")) >>) >>)) >>)]
      [] text = DeepMatchBody ->
           [ok |-> TRUE,
            val |-> WithVisitor(JStr("V1"),
                        << KV("a", JDict(<< KV("b", JDict(<< KV("potoken", JStr("T7")) >>)) >>)),
                           KV("PoToken", JStr("T8")) >>)]
      [] text = NullCanonBody ->
           [ok |-> TRUE,
            val |-> WithVisitor(JStr("V1"),
                        << ServiceDims(JNull),
                           KV("z", JDict(<< KV("poToken", JStr("T9")) >>)) >>)]
      [] text = ListRootBody ->
           [ok |-> TRUE, val |-> JList(<< JDict(<< KV("poToken", JStr("T1")) >>) >>)]
      [] text = NumTokenBody ->
           [ok |-> TRUE, val |-> WithVisitor(JStr("V1"), << ServiceDims(JNum("7")) >>)]
      [] text = DictTokenBody ->
           [ok |-> TRUE,
            val |-> WithVisitor(JStr("V1"),
                        << ServiceDims(JDict(<< KV("x", JNum("1")) >>)) >>)]
      [] text = ListTokenBody ->
           [ok |-> TRUE,
            val |-> WithVisitor(JStr("V1"), << ServiceDims(JList(<< JStr("T1") >>)) >>)]
      [] text = BoolTokenBody ->
           [ok |-> TRUE, val |-> WithVisitor(JStr("V1"), << ServiceDims(JBool("true")) >>)]
      [] text = NumVisitorBody ->
           [ok |-> TRUE, val |-> WithVisitor(JNum("9"), << ServiceDims(JStr("T1")) >>)]
      [] text = NullVisitorBody ->
           [ok |-> TRUE,
            val |-> WithVisitor(JNull,
                        << KV("visitorData", JNum("5")),
                           KV("y", JDict(<< KV("visitorData", JStr("V4")) >>)),
                           ServiceDims(JStr("T1")) >>)]
      [] OTHER -> [ok |-> FALSE, val |-> JNull]

\* -------------------------------------------------------- _extract_token
\* Optional[TokenInfo]: <<>> is None, <<c>> is the TokenInfo c.
None == <<>>
TokenInfo(updated, potoken, visitor_data) ==
    << [updated |-> updated, potoken |-> potoken, visitor_data |-> visitor_data] >>

\* The potoken after the canonical lookup and the recursive search.
ExtractPotoken(post_data_json) ==
    LET service_dims == try_get_path(post_data_json, <<"serviceIntegrityDimensions">>)
        canonical == IF IsDict(service_dims) /\ HasKey(service_dims, "poToken")
                     THEN DictGet(service_dims, "poToken")
                     ELSE JNull
        found == find_key(post_data_json, "potoken", <<>>)
    IN IF canonical # JNull THEN canonical
       ELSE IF found.found /\ IsStr(found.val) THEN found.val
       ELSE JNull

\* The visitor_data after the canonical lookup and the recursive search.
ExtractVisitorData(post_data_json) ==
    LET canonical == try_get_path(post_data_json, <<"context", "client", "visitorData">>)
        found_vis == find_key(post_data_json, "visitorData", <<>>)
    IN IF canonical # JNull THEN canonical
       ELSE IF found_vis.found THEN found_vis.val
       ELSE JNull

\* _extract_token(request) at time.time() = now.
extract_token(post_data, now) ==
    IF post_data = EmptyBody THEN None
    ELSE LET parsed == json_loads(post_data)
         IN IF ~parsed.ok THEN None
            ELSE LET potoken == ExtractPotoken(parsed.val)
                     visitor_data == ExtractVisitorData(parsed.val)
                 IN IF potoken = JNull \/ visitor_data = JNull THEN None
                    ELSE TokenInfo(now, potoken, visitor_data)

\* ------------------------------------------------------------------ state
\* The coroutines that call _update: the run() loop and a run_once() caller.
Updaters == {"run", "once"}
\* Threads that call request_update().
Requesters == {"r1", "r2"}
Sessions == 1..MaxAttempts
\* Values time.time() is taken to return.
Times == {1}

\* Request URLs, as the sequence of their parts.
PlayerUrl == <<"https://www.youtube.com/", "youtubei/v1/", "player">>
NextUrl == <<"https://www.youtube.com/", "youtubei/v1/", "next">>
OtherUrl == <<"https://www.youtube.com/", "api/stats/", "watchtime">>
Request(method, url, post_data) == [method |-> method, url |-> url, post_data |-> post_data]
\* The requests a tab is taken to send.
Requests ==
    { Request("GET", PlayerUrl, CanonBody1),
      Request("POST", OtherUrl, CanonBody1),
      Request("POST", PlayerUrl, EmptyBody),
      Request("POST", PlayerUrl, MalformedBody),
      Request("POST", PlayerUrl, NoFieldsBody),
      Request("POST", PlayerUrl, CanonBody1),
      Request("POST", NextUrl, NestedBody) }
\* The requests of the tab whose network events are followed one by one.
ObservedRequests == Requests \cup {Request("POST", PlayerUrl, b) : b \in ObservedBodies}
\* "needle in url" on the parts of a URL.
UrlContains(url, needle) == \E i \in 1..Len(url) : url[i] = needle

\* len(consent_selectors) and len(selectors) of _click_on_player.
NConsentSelectors == 5
NPlayerSelectors == 3

VARIABLES
    token_info,          \* self._token_info
    ongoing_update,      \* self._ongoing_update.locked()
    extraction_done,     \* self._extraction_done.is_set()
    update_requested,    \* self._update_requested.is_set()
    callbacks,           \* _update_requested.set callbacks posted to the loop, not yet run
    pc,                  \* where each updater coroutine is suspended
    phase,               \* "embed" or "watch": the navigation phase of the attempt
    sel,                 \* index of the selector _click_on_player is looking up
    first_update,        \* run() is in its first _update(), before the while loop
    session,             \* the browser session the updater's attempt launched (0: none)
    browsers,            \* per session: what was done to its browser and tab
    launched,            \* number of browsers launched so far
    stimuli,             \* run_once() calls, request_update() calls and launches so far
    once_calls,          \* run_once() calls made so far
    once_result,         \* what the last run_once() returned
    rpc,                 \* where each request_update() caller is
    rres,                \* what each requester's last request_update() returned
    rcalls,              \* request_update() calls each requester has completed
    \* history, for the properties
    outcome,             \* how the updater's last _update() ended
    starts,              \* nodriver.start calls of the updater's current _update()
    start_token,         \* token_info when the latest attempt entered the guard
    unserved,            \* requests accepted since the last attempt started
    rwhen,               \* what held as the requester's call was issued: "attempt" in
                         \* progress, else an accepted request "pending", else "idle"
    accepted_during,     \* such calls accepted since that attempt started
    signal_from,         \* the session whose request last set _extraction_done (0: clear)
    signal_token,        \* the TokenInfo whose extraction last set _extraction_done
    event                \* the network event a tab has sent, not yet handled

vars == << token_info, ongoing_update, extraction_done, update_requested, callbacks,
           pc, phase, sel, first_update, session, browsers, launched, stimuli, once_calls,
           once_result, rpc, rres, rcalls, outcome, starts, start_token,
           unserved, rwhen, accepted_during, signal_from, signal_token, event >>

ctl_vars == << token_info, ongoing_update, extraction_done, update_requested, callbacks >>
upd_vars == << pc, phase, sel, first_update, session, once_calls, once_result >>
brw_vars == << browsers, launched >>
env_vars == << brw_vars, stimuli >>
req_vars == << rpc, rres, rcalls >>
att_hist == << outcome, starts, start_token >>
req_hist == << unserved, rwhen, accepted_during >>
obs_hist == << signal_from, signal_token >>

\* The suspension points inside "async with self._ongoing_update".
InSection == {"start", "nav", "consent_select", "consent_click", "consent_sleep",
              "player_select", "player_click", "wait", "close"}
InProgress(u) == pc[u] \in InSection

NoBrowser == [handlers |-> FALSE, urls |-> <<>>, closes |-> 0, stops |-> 0]
\* A network event of session s for the request req; done: its handlers have run.
Event(kind, s, req) == [kind |-> kind, s |-> s, request |-> req, done |-> FALSE]
\* No network event has been sent.
NoEvent == [kind |-> "none", s |-> 0, request |-> Request("", <<>>, ""), done |-> TRUE]

\* __init__: no token, guard free, both events clear.
Init ==
    /\ token_info = None
    /\ ongoing_update = FALSE
    /\ extraction_done = FALSE
    /\ update_requested = FALSE
    /\ callbacks = 0
    /\ pc = [u \in Updaters |-> "idle"]
    /\ phase = [u \in Updaters |-> "embed"]
    /\ sel = [u \in Updaters |-> 0]
    /\ first_update = TRUE
    /\ session = [u \in Updaters |-> 0]
    /\ browsers = [s \in Sessions |-> NoBrowser]
    /\ launched = 0
    /\ stimuli = 0
    /\ once_calls = 0
    /\ once_result = None
    /\ rpc = [r \in Requesters |-> "idle"]
    /\ rres = [r \in Requesters |-> FALSE]
    /\ rcalls = [r \in Requesters |-> 0]
    /\ outcome = [u \in Updaters |-> "none"]
    /\ starts = [u \in Updaters |-> 0]
    /\ start_token = None
    /\ unserved = 0
    /\ rwhen = [r \in Requesters |-> "idle"]
    /\ accepted_during = 0
    /\ signal_from = 0
    /\ signal_token = None
    /\ event = NoEvent

\* ------------------------------------------------------- request_update
\* What holds as a request_update() call is issued.
IssuedWhen ==
    IF \E u \in Updaters : InProgress(u) THEN "attempt"
    ELSE IF unserved > 0 THEN "pending"
    ELSE "idle"

\* A requester returns result from request_update().
ReqReturn(r, result) ==
    /\ rpc' = [rpc EXCEPT ![r] = "idle"]
    /\ rres' = [rres EXCEPT ![r] = result]
    /\ rcalls' = [rcalls EXCEPT ![r] = @ + 1]

\* Mutant: request_update does not look at the guard.
RequestCheckLockedSkipped(r) ==
    /\ rpc[r] = "idle"
    /\ rcalls[r] < MaxRequestCalls
    /\ stimuli < MaxStimuli
    /\ stimuli' = stimuli + 1
    /\ rwhen' = [rwhen EXCEPT ![r] = IssuedWhen]
    /\ rpc' = [rpc EXCEPT ![r] = "check_requested"]
    /\ UNCHANGED << rres, rcalls >>
    /\ UNCHANGED << ctl_vars, upd_vars, brw_vars, att_hist, unserved, accepted_during,
                    obs_hist, event >>

\* if self._ongoing_update.locked(): return False
RequestCheckLocked(r) ==
    /\ rpc[r] = "idle"
    /\ rcalls[r] < MaxRequestCalls
    /\ stimuli < MaxStimuli
    /\ stimuli' = stimuli + 1
    /\ rwhen' = [rwhen EXCEPT ![r] = IssuedWhen]
    /\ IF ongoing_update
       THEN ReqReturn(r, FALSE)
       ELSE /\ rpc' = [rpc EXCEPT ![r] = "check_requested"]
            /\ UNCHANGED << rres, rcalls >>
    /\ UNCHANGED << ctl_vars, upd_vars, brw_vars, att_hist, unserved, accepted_during,
                    obs_hist, event >>

\* if self._update_requested.is_set(): return False
RequestCheckRequested(r) ==
    /\ rpc[r] = "check_requested"
    /\ IF update_requested
       THEN ReqReturn(r, FALSE)
       ELSE /\ rpc' = [rpc EXCEPT ![r] = "post"]
            /\ UNCHANGED << rres, rcalls >>
    /\ UNCHANGED << ctl_vars, upd_vars, env_vars, att_hist, req_hist, obs_hist, event >>

\* self._loop.call_soon_threadsafe(self._update_requested.set); return True
RequestPost(r) ==
    /\ rpc[r] = "post"
    /\ callbacks' = callbacks + 1
    /\ ReqReturn(r, TRUE)
    /\ unserved' = unserved + 1
    /\ accepted_during' = IF rwhen[r] = "attempt" THEN accepted_during + 1
                          ELSE accepted_during
    /\ UNCHANGED << token_info, ongoing_update, extraction_done, update_requested,
                    upd_vars, env_vars, att_hist, rwhen, obs_hist, event >>

\* The loop runs a posted self._update_requested.set.
RunSetCallback ==
    /\ callbacks > 0
    /\ callbacks' = callbacks - 1
    /\ update_requested' = TRUE
    /\ UNCHANGED << token_info, ongoing_update, extraction_done,
                    upd_vars, env_vars, req_vars, att_hist, req_hist, obs_hist, event >>

\* ------------------------------------------------- run, run_once, _update
\* run() is called: its first await self._update().
RunCall ==
    /\ pc["run"] = "idle"
    /\ pc' = [pc EXCEPT !["run"] = "update"]
    /\ starts' = [starts EXCEPT !["run"] = 0]
    /\ outcome' = [outcome EXCEPT !["run"] = "none"]
    /\ UNCHANGED << ctl_vars, phase, sel, first_update, session, once_calls, once_result,
                    env_vars, req_vars, start_token, req_hist, obs_hist, event >>

\* run_once() is called: await self._update().
OnceCall ==
    /\ pc["once"] \in {"idle", "returned", "raised"}
    /\ once_calls < MaxOnceCalls
    /\ stimuli < MaxStimuli
    /\ once_calls' = once_calls + 1
    /\ stimuli' = stimuli + 1
    /\ pc' = [pc EXCEPT !["once"] = "update"]
    /\ starts' = [starts EXCEPT !["once"] = 0]
    /\ outcome' = [outcome EXCEPT !["once"] = "none"]
    /\ once_result' = None
    /\ UNCHANGED << ctl_vars, phase, sel, first_update, session,
                    brw_vars, req_vars, start_token, req_hist, obs_hist, event >>

\* run_once: return self.get()
OnceReturn ==
    /\ pc["once"] = "updated"
    /\ once_result' = token_info
    /\ pc' = [pc EXCEPT !["once"] = "returned"]
    /\ outcome' = [outcome EXCEPT !["once"] = "none"]
    /\ UNCHANGED << ctl_vars, phase, sel, first_update, session, once_calls,
                    env_vars, req_vars, starts, start_token, req_hist, obs_hist, event >>

\* run: _update() has returned.  After the first one the loop is entered; after
\* a later one self._update_requested.clear() runs.  Then the wait_for on
\* _update_requested.wait() begins.
RunAfterUpdate ==
    /\ pc["run"] = "updated"
    /\ update_requested' = IF first_update THEN update_requested ELSE FALSE
    /\ first_update' = FALSE
    /\ pc' = [pc EXCEPT !["run"] = "sleep"]
    /\ outcome' = [outcome EXCEPT !["run"] = "none"]
    /\ starts' = [starts EXCEPT !["run"] = 0]
    /\ UNCHANGED << token_info, ongoing_update, extraction_done, callbacks,
                    phase, sel, session, once_calls, once_result,
                    env_vars, req_vars, start_token, req_hist, obs_hist, event >>

\* run: _update_requested.wait() returns ("initiating force update").
RunForced ==
    /\ pc["run"] = "sleep"
    /\ update_requested
    /\ pc' = [pc EXCEPT !["run"] = "update"]
    /\ starts' = [starts EXCEPT !["run"] = 0]
    /\ outcome' = [outcome EXCEPT !["run"] = "none"]
    /\ UNCHANGED << ctl_vars, phase, sel, first_update, session, once_calls, once_result,
                    env_vars, req_vars, start_token, req_hist, obs_hist, event >>

\* run: update_interval elapses first ("initiating scheduled update").
RunScheduled ==
    /\ pc["run"] = "sleep"
    /\ ~update_requested
    /\ pc' = [pc EXCEPT !["run"] = "update"]
    /\ starts' = [starts EXCEPT !["run"] = 0]
    /\ outcome' = [outcome EXCEPT !["run"] = "none"]
    /\ UNCHANGED << ctl_vars, phase, sel, first_update, session, once_calls, once_result,
                    env_vars, req_vars, start_token, req_hist, obs_hist, event >>

\* ------------------------------------------------------- _perform_update
\* The updater leaves "async with self._ongoing_update" (the guard is
\* released) and _update ends: "updated" when it returns, "raised" when an
\* exception leaves it.
Leave(u, to, how) ==
    /\ ongoing_update' = FALSE
    /\ pc' = [pc EXCEPT ![u] = to]
    /\ outcome' = [outcome EXCEPT ![u] = how]
    /\ phase' = [phase EXCEPT ![u] = "embed"]
    /\ sel' = [sel EXCEPT ![u] = 0]
    /\ start_token' = None
    /\ UNCHANGED starts

\* _perform_update finds the guard locked: "update is already in progress".
ReturnAlreadyInProgress(u) ==
    /\ pc' = [pc EXCEPT ![u] = "updated"]
    /\ outcome' = [outcome EXCEPT ![u] = "skipped"]
    /\ UNCHANGED << ctl_vars, starts, start_token, req_hist, obs_hist, event, session >>

\* _perform_update takes the guard, clears _extraction_done and calls
\* nodriver.start.
EnterGuard(u) ==
    /\ ongoing_update' = TRUE
    /\ extraction_done' = FALSE
    /\ pc' = [pc EXCEPT ![u] = "start"]
    /\ session' = [session EXCEPT ![u] = 0]
    /\ starts' = [starts EXCEPT ![u] = @ + 1]
    /\ start_token' = token_info
    /\ unserved' = 0
    /\ accepted_during' = 0
    /\ signal_from' = 0
    /\ signal_token' = None
    /\ UNCHANGED << token_info, update_requested, callbacks, outcome, rwhen, event >>

\* Mutant: the attempt starts without looking at the guard.
PerformUpdateEnterUnguarded(u) ==
    /\ pc[u] = "update"
    /\ EnterGuard(u)
    /\ UNCHANGED << phase, sel, first_update, once_calls, once_result, env_vars, req_vars >>

\* _perform_update begins: return if the guard is locked, else take it.
PerformUpdateEnter(u) ==
    /\ pc[u] = "update"
    /\ IF ongoing_update THEN ReturnAlreadyInProgress(u) ELSE EnterGuard(u)
    /\ UNCHANGED << phase, sel, first_update, once_calls, once_result, env_vars, req_vars >>

\* nodriver.start returns a browser: the four handlers are added to its main
\* tab and tab.get(url_embed) is called.
StartOk(u) ==
    /\ pc[u] = "start"
    /\ launched < MaxAttempts
    /\ stimuli < MaxStimuli
    /\ launched' = launched + 1
    /\ stimuli' = stimuli + 1
    /\ session' = [session EXCEPT ![u] = launched + 1]
    /\ browsers' = [browsers EXCEPT ![launched + 1] =
                       [handlers |-> TRUE, urls |-> <<"embed">>, closes |-> 0, stops |-> 0]]
    /\ pc' = [pc EXCEPT ![u] = "nav"]
    /\ phase' = [phase EXCEPT ![u] = "embed"]
    /\ UNCHANGED << ctl_vars, sel, first_update, once_calls, once_result,
                    req_vars, att_hist, req_hist, obs_hist, event >>

\* nodriver.start raises FileNotFoundError, which is raised again.
StartFails(u) ==
    /\ pc[u] = "start"
    /\ Leave(u, "raised", "none")
    /\ UNCHANGED << token_info, extraction_done, update_requested, callbacks,
                    first_update, session, once_calls, once_result, env_vars, req_vars,
                    req_hist, obs_hist, event >>

\* tab.get returns: _click_on_player looks up the first consent selector.
NavOk(u) ==
    /\ pc[u] = "nav"
    /\ pc' = [pc EXCEPT ![u] = "consent_select"]
    /\ sel' = [sel EXCEPT ![u] = 1]
    /\ UNCHANGED << ctl_vars, phase, first_update, session, once_calls, once_result,
                    env_vars, req_vars, att_hist, req_hist, obs_hist, event >>

\* An awaited browser call that is not inside a try (tab.get, the consent
\* button's click, tab.close) raises.
CallRaises(u) ==
    /\ pc[u] \in {"nav", "consent_click", "close"}
    /\ Leave(u, "raised", "none")
    /\ UNCHANGED << token_info, extraction_done, update_requested, callbacks,
                    first_update, session, once_calls, once_result, env_vars, req_vars,
                    req_hist, obs_hist, event >>

\* The updater goes on to _wait_for_handler: 15 s in the embed phase, 120 s
\* in the watch phase.
ToWait(u) ==
    /\ pc' = [pc EXCEPT ![u] = "wait"]
    /\ sel' = [sel EXCEPT ![u] = 0]

\* The player loop goes to its next selector, or ends with return False.
NextPlayerSelector(u) ==
    IF sel[u] < NPlayerSelectors
    THEN /\ pc' = [pc EXCEPT ![u] = "player_select"]
         /\ sel' = [sel EXCEPT ![u] = @ + 1]
    ELSE ToWait(u)

\* tab.select(consent_selectors[sel], 2) returns a button or times out.
ConsentSelect(u, found) ==
    /\ pc[u] = "consent_select"
    /\ IF found
       THEN /\ pc' = [pc EXCEPT ![u] = "consent_click"]
            /\ UNCHANGED sel
       ELSE IF sel[u] < NConsentSelectors
       THEN /\ sel' = [sel EXCEPT ![u] = @ + 1]
            /\ UNCHANGED pc
       ELSE /\ pc' = [pc EXCEPT ![u] = "player_select"]
            /\ sel' = [sel EXCEPT ![u] = 1]
    /\ UNCHANGED << ctl_vars, phase, first_update, session, once_calls, once_result,
                    env_vars, req_vars, att_hist, req_hist, obs_hist, event >>

\* btn.click() returns: asyncio.sleep(1).
ConsentClickOk(u) ==
    /\ pc[u] = "consent_click"
    /\ pc' = [pc EXCEPT ![u] = "consent_sleep"]
    /\ UNCHANGED << ctl_vars, phase, sel, first_update, session, once_calls, once_result,
                    env_vars, req_vars, att_hist, req_hist, obs_hist, event >>

\* The sleep ends: break, and the player loop starts.
ConsentSleep(u) ==
    /\ pc[u] = "consent_sleep"
    /\ pc' = [pc EXCEPT ![u] = "player_select"]
    /\ sel' = [sel EXCEPT ![u] = 1]
    /\ UNCHANGED << ctl_vars, phase, first_update, session, once_calls, once_result,
                    env_vars, req_vars, att_hist, req_hist, obs_hist, event >>

\* tab.select(selectors[sel], 2) returns an element or times out.
PlayerSelect(u, found) ==
    /\ pc[u] = "player_select"
    /\ IF found
       THEN /\ pc' = [pc EXCEPT ![u] = "player_click"]
            /\ UNCHANGED sel
       ELSE NextPlayerSelector(u)
    /\ UNCHANGED << ctl_vars, phase, first_update, session, once_calls, once_result,
                    env_vars, req_vars, att_hist, req_hist, obs_hist, event >>

\* el.click() returns (return True) or raises an Exception (continue).
PlayerClick(u, ok) ==
    /\ pc[u] = "player_click"
    /\ IF ok THEN ToWait(u) ELSE NextPlayerSelector(u)
    /\ UNCHANGED << ctl_vars, phase, first_update, session, once_calls, once_result,
                    env_vars, req_vars, att_hist, req_hist, obs_hist, event >>

\* tab.close() is called.
ToClose(u) ==
    /\ pc' = [pc EXCEPT ![u] = "close"]
    /\ browsers' = [browsers EXCEPT ![session[u]].closes = @ + 1]

\* _wait_for_handler: _extraction_done is set, the wait returns True.  In the
\* embed phase success is True; in both phases tab.close() comes next.
WaitSignalled(u) ==
    /\ pc[u] = "wait"
    /\ extraction_done
    /\ ToClose(u)
    /\ UNCHANGED << ctl_vars, phase, sel, first_update, session, once_calls, once_result,
                    launched, stimuli, req_vars, att_hist, req_hist, obs_hist, event >>

\* Mutant: a timed-out wait navigates to url_watch again, whatever the phase.
WaitTimeoutRetries(u) ==
    /\ pc[u] = "wait"
    /\ ~extraction_done
    /\ phase' = [phase EXCEPT ![u] = "watch"]
    /\ pc' = [pc EXCEPT ![u] = "nav"]
    /\ browsers' = [browsers EXCEPT ![session[u]].urls = Append(@, "watch")]
    /\ UNCHANGED << ctl_vars, sel, first_update, session, once_calls, once_result,
                    launched, stimuli, req_vars, att_hist, req_hist, obs_hist, event >>

\* _wait_for_handler times out and returns False.  In the embed phase
\* tab.get(url_watch) is called; in the watch phase tab.close() is.
WaitTimeout(u) ==
    /\ pc[u] = "wait"
    /\ ~extraction_done
    /\ IF phase[u] = "embed"
       THEN /\ phase' = [phase EXCEPT ![u] = "watch"]
            /\ pc' = [pc EXCEPT ![u] = "nav"]
            /\ browsers' = [browsers EXCEPT ![session[u]].urls = Append(@, "watch")]
       ELSE /\ ToClose(u)
            /\ UNCHANGED phase
    /\ UNCHANGED << ctl_vars, sel, first_update, session, once_calls, once_result,
                    launched, stimuli, req_vars, att_hist, req_hist, obs_hist, event >>

\* tab.close() returns, browser.stop() runs, the guard is released and
\* _perform_update and _update return.
CloseOk(u) ==
    /\ pc[u] = "close"
    /\ browsers' = [browsers EXCEPT ![session[u]].stops = @ + 1]
    /\ Leave(u, "updated", "completed")
    /\ UNCHANGED << token_info, extraction_done, update_requested, callbacks,
                    first_update, session, once_calls, once_result, launched, stimuli,
                    req_vars, req_hist, obs_hist, event >>

\* Mutant: _update does not catch the TimeoutError of its wait_for.
HardCeilingUncaught(u) ==
    /\ InProgress(u)
    /\ Leave(u, "raised", "ceiling")
    /\ UNCHANGED << token_info, extraction_done, update_requested, callbacks,
                    first_update, session, once_calls, once_result, env_vars, req_vars,
                    req_hist, obs_hist, event >>

\* Mutant: the cancellation by the ceiling leaves the guard locked.
HardCeilingKeepsGuard(u) ==
    /\ InProgress(u)
    /\ pc' = [pc EXCEPT ![u] = "updated"]
    /\ outcome' = [outcome EXCEPT ![u] = "ceiling"]
    /\ phase' = [phase EXCEPT ![u] = "embed"]
    /\ sel' = [sel EXCEPT ![u] = 0]
    /\ start_token' = None
    /\ UNCHANGED << ctl_vars, starts, first_update, session, once_calls, once_result,
                    env_vars, req_vars, req_hist, obs_hist, event >>

\* _update: the 600 s wait_for expires.  _perform_update is cancelled at the
\* await it is suspended in, the CancelledError leaves the async with (the
\* guard is released), and _update logs the TimeoutError and returns.
HardCeiling(u) ==
    /\ InProgress(u)
    /\ Leave(u, "updated", "ceiling")
    /\ UNCHANGED << token_info, extraction_done, update_requested, callbacks,
                    first_update, session, once_calls, once_result, env_vars, req_vars,
                    req_hist, obs_hist, event >>

\* --------------------------------------------------------- _send_handler
\* A tab delivers RequestWillBeSent while its handlers are subscribed, a
\* tab.get has been called and the tab is neither closed nor its browser stopped.
Delivers(s) ==
    /\ browsers[s].handlers
    /\ browsers[s].urls # <<>>
    /\ browsers[s].closes = 0
    /\ browsers[s].stops = 0

\* Mutant: _send_handler does not test the request method.
HandledTokenAnyMethod(req, now) ==
    IF ~UrlContains(req.url, "youtubei/v1/") THEN None
    ELSE extract_token(req.post_data, now)

\* What _send_handler makes of a request: the TokenInfo to publish, or None.
HandledToken(req, now) ==
    IF req.method # "POST" THEN None
    ELSE IF ~UrlContains(req.url, "youtubei/v1/") THEN None
    ELSE extract_token(req.post_data, now)

\* Mutant: the completion signal is set before the token is stored, and the
\* store is written in a step of its own that has not run yet.
PublishSignalFirst(s, token) ==
    IF token = None
    THEN UNCHANGED << token_info, extraction_done, obs_hist >>
    ELSE /\ extraction_done' = TRUE
         /\ signal_from' = s
         /\ signal_token' = token
         /\ UNCHANGED token_info

\* _send_handler, after the method and URL tests: a None from _extract_token
\* is dropped; a TokenInfo is assigned to self._token_info and
\* self._extraction_done.set() is called, with no await in between.
Publish(s, token) ==
    IF token = None
    THEN UNCHANGED << token_info, extraction_done, obs_hist >>
    ELSE /\ token_info' = token
         /\ extraction_done' = TRUE
         /\ signal_from' = s
         /\ signal_token' = token

\* Mutant: the stored TokenInfo is updated field by field, and the visitor
\* data of an earlier token is kept.
SendHandlerFieldwise(s, req, now) ==
    /\ Delivers(s)
    /\ LET token == HandledToken(req, now)
       IN IF token = None
          THEN UNCHANGED << token_info, extraction_done, obs_hist >>
          ELSE /\ token_info' = IF token_info = None THEN token
                                ELSE TokenInfo(now, token[1].potoken, token_info[1].visitor_data)
               /\ extraction_done' = TRUE
               /\ signal_from' = s
               /\ signal_token' = token
    /\ UNCHANGED << ongoing_update, update_requested, callbacks,
                    upd_vars, env_vars, req_vars, att_hist, req_hist, event >>

\* _send_handler(event) for the request req of session s.
SendHandler(s, req, now) ==
    /\ Delivers(s)
    /\ Publish(s, HandledToken(req, now))
    /\ UNCHANGED << ongoing_update, update_requested, callbacks,
                    upd_vars, env_vars, req_vars, att_hist, req_hist, event >>

\* ------------------------------------------------- events, one at a time
\* The handlers add_handler subscribed, by event type (lines 260-269).
EventKinds == {"RequestWillBeSent", "ResponseReceived", "LoadingFailed"}

\* What the event handlers never touch.
rest_vars == << ongoing_update, update_requested, callbacks, upd_vars, env_vars,
               req_vars, att_hist, req_hist >>

\* An attempt of run() is suspended in its 15 s completion wait: the guard is
\* held, the signal is clear, session 1 has its handlers subscribed and
\* url_embed navigated to.
InitObserver ==
    /\ token_info = None
    /\ ongoing_update = TRUE
    /\ extraction_done = FALSE
    /\ update_requested = FALSE
    /\ callbacks = 0
    /\ pc = [u \in Updaters |-> IF u = "run" THEN "wait" ELSE "idle"]
    /\ phase = [u \in Updaters |-> "embed"]
    /\ sel = [u \in Updaters |-> 0]
    /\ first_update = TRUE
    /\ session = [u \in Updaters |-> IF u = "run" THEN 1 ELSE 0]
    /\ browsers = [s \in Sessions |->
                      IF s = 1
                      THEN [handlers |-> TRUE, urls |-> <<"embed">>, closes |-> 0, stops |-> 0]
                      ELSE NoBrowser]
    /\ launched = 1
    /\ stimuli = 1
    /\ once_calls = 0
    /\ once_result = None
    /\ rpc = [r \in Requesters |-> "idle"]
    /\ rres = [r \in Requesters |-> FALSE]
    /\ rcalls = [r \in Requesters |-> 0]
    /\ outcome = [u \in Updaters |-> "none"]
    /\ starts = [u \in Updaters |-> IF u = "run" THEN 1 ELSE 0]
    /\ start_token = None
    /\ unserved = 0
    /\ rwhen = [r \in Requesters |-> "idle"]
    /\ accepted_during = 0
    /\ signal_from = 0
    /\ signal_token = None
    /\ event = NoEvent

\* The tab of session s sends a network event once the handlers of the
\* event before it have run.
TabSends(s, kind, req) ==
    /\ Delivers(s)
    /\ event.done
    /\ event' = Event(kind, s, req)
    /\ UNCHANGED << token_info, extraction_done, obs_hist, rest_vars >>

\* RequestWillBeSent: _general_request_logger, which only logs, and then
\* _send_handler.
RequestWillBeSentHandlers(now) ==
    /\ ~event.done
    /\ event.kind = "RequestWillBeSent"
    /\ Publish(event.s, HandledToken(event.request, now))
    /\ event' = [event EXCEPT !.done = TRUE]
    /\ UNCHANGED rest_vars

\* ResponseReceived: _response_logger only logs.
ResponseLogger ==
    /\ ~event.done
    /\ event.kind = "ResponseReceived"
    /\ event' = [event EXCEPT !.done = TRUE]
    /\ UNCHANGED << token_info, extraction_done, obs_hist, rest_vars >>

\* LoadingFailed: _loading_failed_logger only logs.
LoadingFailedLogger ==
    /\ ~event.done
    /\ event.kind = "LoadingFailed"
    /\ event' = [event EXCEPT !.done = TRUE]
    /\ UNCHANGED << token_info, extraction_done, obs_hist, rest_vars >>

NextObserver ==
    \/ \E s \in Sessions, kind \in EventKinds, req \in ObservedRequests : TabSends(s, kind, req)
    \/ \E now \in Times : RequestWillBeSentHandlers(now)
    \/ ResponseLogger
    \/ LoadingFailedLogger

SpecObserver == InitObserver /\ [][NextObserver]_vars

\* ------------------------------------------------------------------ spec
Next ==
    \/ RunCall
    \/ OnceCall
    \/ OnceReturn
    \/ RunAfterUpdate
    \/ RunForced
    \/ RunScheduled
    \/ RunSetCallback
    \/ \E r \in Requesters : RequestCheckLocked(r)
    \/ \E r \in Requesters : RequestCheckRequested(r)
    \/ \E r \in Requesters : RequestPost(r)
    \/ \E u \in Updaters : PerformUpdateEnter(u)
    \/ \E u \in Updaters : StartOk(u)
    \/ \E u \in Updaters : StartFails(u)
    \/ \E u \in Updaters : NavOk(u)
    \/ \E u \in Updaters : CallRaises(u)
    \/ \E u \in Updaters, found \in BOOLEAN : ConsentSelect(u, found)
    \/ \E u \in Updaters : ConsentClickOk(u)
    \/ \E u \in Updaters : ConsentSleep(u)
    \/ \E u \in Updaters, found \in BOOLEAN : PlayerSelect(u, found)
    \/ \E u \in Updaters, ok \in BOOLEAN : PlayerClick(u, ok)
    \/ \E u \in Updaters : WaitSignalled(u)
    \/ \E u \in Updaters : WaitTimeout(u)
    \/ \E u \in Updaters : CloseOk(u)
    \/ \E u \in Updaters : HardCeiling(u)
    \/ \E s \in Sessions, req \in Requests, now \in Times : SendHandler(s, req, now)

Spec == Init /\ [][Next]_vars

\* ------------------------------------------------------------ properties
Running == {u \in Updaters : InProgress(u)}
Other(u) == CHOOSE v \in Updaters : v # u
\* The requester's last call has returned: rres and rwhen tell of that call.
Returned(r) == rpc[r] = "idle" /\ rcalls[r] >= 1
\* The TokenInfo values one successful extraction can produce.
Extractable == {HandledToken(req, now) : req \in Requests, now \in Times} \ {None}

\* C1: in every reachable state at most one _perform_update execution is
\* inside the section guarded by _ongoing_update.
C1_SingleFlight == Cardinality(Running) <= 1

\* C1 witness: one updater is inside the guarded section while the other has
\* just been turned away by the guard.
C1_Witness ==
    \E u \in Updaters :
        InProgress(u) /\ pc[Other(u)] = "updated" /\ outcome[Other(u)] = "skipped"

\* C2: get() returns None or one whole TokenInfo produced by a single
\* successful extraction, and its value changes only in a step in which
\* _send_handler extracts a token from a request of a delivering session;
\* until then it stays the previous value.
C2_StoreWhole == token_info = None \/ token_info \in Extractable
C2_StoreStep ==
    token_info' # token_info =>
        /\ token_info' \in Extractable
        /\ extraction_done'
        /\ \E s \in Sessions : Delivers(s)
        /\ pc' = pc
C2_GetOnlyAfterExtraction == [](C2_StoreWhole) /\ [][C2_StoreStep]_vars

\* C2 witness: during an attempt that began with a token in the store, a new
\* extraction has replaced that token by another one.
C2_Witness ==
    /\ Running # {}
    /\ start_token # None
    /\ token_info # None
    /\ token_info # start_token

\* C3: of the request_update() calls issued while an attempt is in progress at
\* most one is accepted, and a call that returns False changes neither the
\* pending flag, the posted callbacks, the guard nor the credential.
C3_RefusedStep ==
    \A r \in Requesters :
        (rcalls'[r] = rcalls[r] + 1 /\ ~rres'[r]) => UNCHANGED ctl_vars
C3_CoalescedDuringAttempt == [](accepted_during <= 1) /\ [][C3_RefusedStep]_vars

\* C3 witness: a call issued while an attempt was in progress has returned
\* False, and the attempt is still in progress.
C3_Witness ==
    \E r \in Requesters :
        Returned(r) /\ rwhen[r] = "attempt" /\ ~rres[r] /\ Running # {}

\* C4: a request_update() call issued after another call was accepted, and
\* before the refresh that serves that one has started, returns False.
C4_SecondCallRefused ==
    \A r \in Requesters : (Returned(r) /\ rwhen[r] = "pending") => ~rres[r]

\* C5: while run() is executing an accepted request is not lost: when run()
\* is waiting for its next trigger and an accepted request has not been
\* followed by the start of an attempt, the forced-refresh flag is set or its
\* set callback is still posted, so the wait ends without the interval.
C5_AcceptedRequestServed ==
    (pc["run"] = "sleep" /\ unserved > 0) => (update_requested \/ callbacks > 0)

\* C6: no failure of an attempt throws out of run(): run() never ends with an
\* exception.
C6_RunSurvives == pc["run"] # "raised"

\* C7: once the attempt that launched a browser session has ended, on any
\* exit path, tab.close() and browser.stop() have each been called exactly
\* once for that session.
C7_CleanupOnEveryExit ==
    \A s \in Sessions :
        (s <= launched /\ ~\E u \in Running : session[u] = s) =>
            (browsers[s].closes = 1 /\ browsers[s].stops = 1)

\* C8 as stated: when an attempt is abandoned by the hard ceiling, get()
\* returns the value it returned before the attempt started.
C8_CeilingStep(u) == InProgress(u) /\ outcome'[u] = "ceiling"
C8_CeilingRestoresStartValue ==
    [][\A u \in Updaters : C8_CeilingStep(u) => token_info' = start_token]_vars

\* C8 amended: the abandonment itself leaves the store untouched, so get()
\* returns what it returned just before the ceiling fired: the value from
\* before the attempt, or a whole TokenInfo that a request published during
\* the attempt; _update returns without an exception and the guard is free.
C8_CeilingLeavesStore ==
    [][\A u \in Updaters : C8_CeilingStep(u) =>
          /\ token_info' = token_info
          /\ (token_info' = start_token \/ token_info' \in Extractable)
          /\ pc'[u] = "updated"
          /\ ~ongoing_update']_vars

\* C8 witness: an attempt that launched the only browser so far has been
\* abandoned by the ceiling, and the store holds a token that a request of
\* that browser published.
C8_Witness ==
    \E u \in Updaters :
        pc[u] = "updated" /\ outcome[u] = "ceiling" /\ launched = 1 /\ token_info # None

\* C9 as stated: every run_once() that returns has performed exactly one
\* refresh attempt.
C9_OnceAlwaysAttempts == pc["once"] = "returned" => starts["once"] = 1

\* C9 amended: a run_once() call performs at most one refresh attempt: when
\* the guard is free as _perform_update checks it, exactly one (it takes the
\* guard and calls nodriver.start once); when another attempt holds the guard,
\* none: it launches nothing, leaves guard, signal and store alone, and
\* returns get() at once.
C9_EnterStep ==
    (pc["once"] = "update" /\ pc'["once"] # "update") =>
        IF ongoing_update
        THEN /\ pc'["once"] = "updated"
             /\ starts'["once"] = 0
             /\ UNCHANGED << ctl_vars, browsers, launched >>
        ELSE /\ pc'["once"] = "start"
             /\ starts'["once"] = 1
             /\ ongoing_update'
C9_ReturnStep ==
    (pc["once"] # "returned" /\ pc'["once"] = "returned") =>
        (pc["once"] = "updated" /\ once_result' = token_info)
C9_OnceAtMostOneAttempt ==
    /\ [](starts["once"] <= 1)
    /\ [][C9_EnterStep /\ C9_ReturnStep]_vars

\* C9 witness: run_once() has returned without an attempt of its own while
\* the attempt of run() is still in progress.
C9_Witness == pc["once"] = "returned" /\ starts["once"] = 0 /\ InProgress("run")

\* C10: in an attempt the fallback URL is navigated to at most once; the step
\* that ends the 15 s wait calls tab.get(url_watch) exactly when the signal is
\* not set and goes to tab.close() without it when the signal is set; the
\* 120 s wait is entered only after that navigation and its interaction
\* sequence, and tab.close() is reached only from a completion wait.
ClickStates == {"consent_select", "consent_click", "consent_sleep",
                "player_select", "player_click"}
Aborted == {"updated", "raised"}
C10_Urls ==
    \A s \in Sessions : browsers[s].urls \in {<<>>, <<"embed">>, <<"embed", "watch">>}
C10_Phase ==
    \A u \in Running :
        /\ (phase[u] = "watch") = (session[u] # 0 /\ browsers[session[u]].urls = <<"embed", "watch">>)
        /\ pc[u] = "close" => browsers[session[u]].closes = 1
C10_ShortWaitStep(u) ==
    (pc[u] = "wait" /\ phase[u] = "embed" /\ pc'[u] \notin {"wait"} \cup Aborted) =>
        IF extraction_done
        THEN pc'[u] = "close" /\ browsers'[session[u]].urls = <<"embed">>
        ELSE /\ pc'[u] = "nav" /\ phase'[u] = "watch"
             /\ browsers'[session[u]].urls = <<"embed", "watch">>
C10_OrderStep(u) ==
    /\ (pc[u] = "nav" /\ pc'[u] \notin {"nav"} \cup Aborted) => pc'[u] = "consent_select"
    /\ (pc[u] \in ClickStates /\ pc'[u] \notin ClickStates \cup Aborted) =>
           (pc'[u] = "wait" /\ phase'[u] = phase[u])
    /\ (pc[u] = "wait" /\ phase[u] = "watch" /\ pc'[u] \notin {"wait"} \cup Aborted) =>
           (pc'[u] = "close" /\ browsers'[session[u]].urls = <<"embed", "watch">>)
    /\ (pc[u] # "nav" /\ pc'[u] = "nav") => pc[u] \in {"start", "wait"}
C11_PublishedOncePerSession ==
    [][(extraction_done /\ signal_from # 0 /\ signal_from' = signal_from) =>
          token_info' = token_info]_vars

\* C12: a completion wait reports success only on a signal that a request of
\* the waiting attempt's own session set.
C12_WaitSuccessOwnSession ==
    [][\A u \in Updaters :
          (pc[u] = "wait" /\ pc'[u] = "close" /\ extraction_done) =>
              signal_from = session[u]]_vars

\* C14: the interaction sequence is left only for the completion wait of the
\* current phase, whatever lookup or click failed; the hard ceiling, which is
\* no interaction failure, is set aside.
C14_InteractionNeverAborts ==
    [][\A u \in Updaters :
          (pc[u] \in ClickStates /\ pc'[u] \notin ClickStates /\ outcome'[u] # "ceiling") =>
              (pc'[u] = "wait" /\ phase'[u] = phase[u])]_vars

\* C15: when nodriver.start fails the attempt has launched and navigated
\* nothing, the error leaves the attempt, the guard is free and get() returns
\* what it returned before the attempt.
C15_LaunchFailureKeepsStore ==
    [][\A u \in Updaters :
          (pc[u] = "start" /\ pc'[u] = "raised") =>
              /\ session'[u] = 0
              /\ browsers' = browsers
              /\ ~ongoing_update'
              /\ token_info' = start_token]_vars

\* C18: at most one launched browser has not been stopped.
LiveBrowsers == {s \in Sessions : s <= launched /\ browsers[s].stops = 0}
C18_OneLiveBrowser == Cardinality(LiveBrowsers) <= 1

\* C19: the guard is locked exactly while a _perform_update execution is
\* inside the guarded section; every step that takes an updater out of the
\* section leaves the guard unlocked; and an updater that reaches the guard
\* test while nobody is inside takes the guard.
C19_GuardFollowsSection == ongoing_update <=> (Running # {})
C19_ExitStep(u) ==
    (pc[u] \in InSection /\ pc'[u] \notin InSection) => ~ongoing_update'
C19_AcquireStep(u) ==
    (pc[u] = "update" /\ Running = {} /\ pc'[u] # "update") =>
        (pc'[u] = "start" /\ ongoing_update')
C19_GuardReleasedOnEveryExit ==
    /\ [](C19_GuardFollowsSection)
    /\ [][\A u \in Updaters : C19_ExitStep(u) /\ C19_AcquireStep(u)]_vars

\* C19 witness: after one updater's attempt was cancelled by the hard ceiling
\* the other updater has taken the guard.
C19_Witness ==
    \E u \in Updaters :
        /\ pc[u] = "updated" /\ outcome[u] = "ceiling"
        /\ pc[Other(u)] = "start" /\ ongoing_update

\* C20: whenever _extraction_done is set the store holds the TokenInfo whose
\* extraction last set it; a wait that ends on the signal finds a token in
\* the store, and the store never goes back to None.
C20_SignalImpliesStored ==
    extraction_done => (token_info # None /\ token_info = signal_token)
C20_WaitStep(u) ==
    (pc[u] = "wait" /\ pc'[u] = "close" /\ extraction_done) => token_info' # None
C20_StoreWrittenBeforeSignal ==
    /\ [](C20_SignalImpliesStored)
    /\ [][(token_info # None => token_info' # None)
          /\ \A u \in Updaters : C20_WaitStep(u)]_vars

\* C20 witness: a completion wait has ended on the signal of its own session
\* and the store holds the token of that extraction.
C20_Witness ==
    \E u \in Updaters :
        /\ pc[u] = "close" /\ extraction_done /\ signal_from = session[u]
        /\ token_info # None /\ token_info = signal_token

\* The handlers of the sent event run in this step.
Handled == ~event.done /\ event'.done
\* The event is an outgoing POST to the youtubei/v1/ namespace whose body
\* yields a token.
Qualifies(ev, now) ==
    /\ ev.kind = "RequestWillBeSent"
    /\ ev.request.method = "POST"
    /\ UrlContains(ev.request.url, "youtubei/v1/")
    /\ extract_token(ev.request.post_data, now) # None

\* C13: the store and the signal change only in the step that handles a
\* qualifying event, which stores the token of its body and sets the signal;
\* the handlers of every other event leave both as they were.
C13_Step ==
    /\ (token_info' # token_info \/ extraction_done' # extraction_done) =>
           (Handled /\ \E now \in Times : Qualifies(event, now))
    /\ (Handled /\ ~\E now \in Times : Qualifies(event, now)) =>
           UNCHANGED << token_info, extraction_done >>
    /\ \A now \in Times :
           (Handled /\ Qualifies(event, now)) =>
               (extraction_done' /\ token_info' = extract_token(event.request.post_data, now))
C13_OnlyQualifyingEventsWrite == [][C13_Step]_vars

\* C13 witness: after a token was published, the handlers of an event that
\* does not qualify (not a request, not a POST, another URL, or a body with
\* no token) have run, and the store holds the published token.
C13_Witness ==
    /\ event.done /\ event.kind # "none"
    /\ ~\E now \in Times : Qualifies(event, now)
    /\ extraction_done /\ token_info # None /\ token_info = signal_token

\* The value of the first key, in depth-first document order, that is
\* "potoken" in lower case and has a string value (JNull: there is none).
RECURSIVE FirstStringPotoken(_)
RECURSIVE FirstStringPotokenFrom(_, _)
FirstStringPotoken(obj) ==
    IF IsDict(obj) \/ IsList(obj) THEN FirstStringPotokenFrom(obj, 1) ELSE JNull
FirstStringPotokenFrom(obj, i) ==
    IF i > Len(obj.items) THEN JNull
    ELSE IF IsDict(obj) /\ Lower(obj.items[i].k) = "potoken" /\ IsStr(obj.items[i].v)
    THEN obj.items[i].v
    ELSE LET inner == FirstStringPotoken(obj.items[i].v)
         IN IF inner # JNull THEN inner ELSE FirstStringPotokenFrom(obj, i + 1)

\* The parsed body of the event's request.
EventJson == json_loads(event.request.post_data)
\* The body parses, has no proof token at serviceIntegrityDimensions.poToken,
\* has a string-valued potoken key somewhere and has a visitor identifier.
FallbackCase ==
    /\ event.request.post_data # EmptyBody
    /\ EventJson.ok
    /\ try_get_path(EventJson.val, <<"serviceIntegrityDimensions", "poToken">>) = JNull
    /\ FirstStringPotoken(EventJson.val) # JNull
    /\ ExtractVisitorData(EventJson.val) # JNull

\* C16: for such a body, sent by POST to the youtubei/v1/ namespace, the
\* handler publishes a token whose potoken is the first string-valued match.
C16_FirstStringMatchWins ==
    [][(Handled /\ event.kind = "RequestWillBeSent" /\ event.request.method = "POST"
          /\ UrlContains(event.request.url, "youtubei/v1/") /\ FallbackCase) =>
           /\ token_info' # None
           /\ token_info'[1].potoken = FirstStringPotoken(EventJson.val)]_vars

\* C17: the store holds None or a token whose potoken and visitor_data are
\* both strings.
C17_StoredFieldsAreStrings ==
    token_info # None => (IsStr(token_info[1].potoken) /\ IsStr(token_info[1].visitor_data))

====
